---- MODULE Spec2Model ----
(***************************************************************************)
(* A model of the arXiv compiler service: the compile controller and the   *)
(* read controllers (controllers.py, routes.py), task dispatch and the     *)
(* worker task do_compile (compiler.py), the result backend and broker     *)
(* queue they talk to (celery.py, celeryconfig.py) and the object store    *)
(* (services/store).                                                       *)
(*                                                                         *)
(* One triple (source_id, checksum, output_format) is modelled per element *)
(* of Tasks.  API requests and worker executions interleave at every       *)
(* access to shared state: the result backend, the broker queue and the    *)
(* object store.  Steps of one handler that touch nothing shared are       *)
(* folded into the handler's next shared access.                           *)
(***************************************************************************)
EXTENDS Integers, Sequences, FiniteSets, TLC

----------------------------------------------------------------------------
(* Bounds of the model *)

\* compile requests (POST /) issued in one behaviour
MaxRequests == 2

\* times the broker delivers a job again after an acknowledgement was lost
MaxRedeliveries == 1

\* jobs put on the queue in one behaviour, first deliveries and repeated ones
MaxJobs == 2

\* worker processes
NumWorkers == 1

Reqs == 1..MaxRequests
Workers == 1..NumWorkers

----------------------------------------------------------------------------
(* Values *)

\* Python's None
None == "None"

\* the task ids "{source_id}/{checksum}/{output_format}" in play
Tasks == {"54/a1b2c3d4=/pdf"}

\* domain.Status
IN_PROGRESS == "in_progress"
COMPLETED == "completed"
FAILED == "failed"

\* domain.Reason (Reason.NONE has the value None)
R_NONE == None
R_AUTHORIZATION == "auth_error"
R_MISSING == "missing_source"
R_CORRUPTED == "corrupted_source"
R_STORAGE == "storage"
R_COMPILATION == "compilation_errors"
R_NETWORK == "network_error"
R_DOCKER == "docker"
R_SOURCE_TYPE == "invalid_source_type"
R_CANCELLED == "cancelled"

\* the values Status(...) accepts
Statuses == {IN_PROGRESS, COMPLETED, FAILED}

\* the values Reason(...) accepts
Reasons == {R_NONE, R_AUTHORIZATION, R_MISSING, R_SOURCE_TYPE, R_CORRUPTED,
            R_STORAGE, R_CANCELLED, R_COMPILATION, R_NETWORK, R_DOCKER}

\* Python values of the kinds an owner or a user id takes: a str, an int
\* (written in digits), or None
PyStr(s) == [type |-> "str", repr |-> s]
PyInt(digits) == [type |-> "int", repr |-> digits]
PyNone == [type |-> "NoneType", repr |-> "None"]

\* str(x)
Str(x) == PyStr(x.repr)

\* bool(x): None, "" and 0 are false
Truthy(x) == x \notin {PyNone, PyStr(""), PyInt("0")}

\* what FileManager.owner answers for the sources in play
OwnerValues == {PyStr("84843")}

\* an auth session: its user's user_id (PyNone for a session without user)
\* and whether it holds the scope qualified by the task_id
\* (Session.is_authorized)
Callers == {[user |-> PyStr("84843"), scoped |-> FALSE],
            [user |-> PyStr("123"), scoped |-> FALSE],
            [user |-> PyStr("123"), scoped |-> TRUE],
            [user |-> PyNone, scoped |-> FALSE]}

----------------------------------------------------------------------------
(* domain.Task and its serialisation *)

\* Task.to_dict(): the fields the model follows
TaskDict(status, reason, owner) ==
    [kind |-> "dict", status |-> status, reason |-> reason, owner |-> owner]

\* AsyncResult.info when the stored result is None (state SENT)
InfoNone == [kind |-> "none"]

\* AsyncResult.info in state FAILURE: the exception instance
InfoException == [kind |-> "exception"]

\* the result-backend row of a task id nobody stored anything for
MetaPending == [status |-> "PENDING", result |-> InfoNone]

----------------------------------------------------------------------------
(* compiler.get_task *)

\* what get_task returns or raises for a result-backend row
GetTask(meta) ==
    IF meta.status = "PENDING" THEN [kind |-> "NoSuchTask"]
    ELSE IF meta.status \notin {"SENT", "STARTED", "RETRY", "FAILURE", "SUCCESS"}
         THEN [kind |-> "Error"]          \* _info is unbound
    ELSE LET info == meta.result
             given == info.kind = "dict" /\ "status" \in DOMAIN info
             stat == IF meta.status \in {"SENT", "STARTED", "RETRY"} THEN IN_PROGRESS
                     ELSE IF meta.status = "FAILURE" THEN FAILED
                     ELSE IF given THEN info.status
                          ELSE COMPLETED
             reason == IF info.kind = "dict" /\ "reason" \in DOMAIN info
                       THEN info.reason ELSE R_NONE
         IN IF meta.status = "SUCCESS" /\ given /\ info.status \notin Statuses
               THEN [kind |-> "Error"]    \* ValueError: no such Status
            ELSE IF info.kind = "none"
               THEN [kind |-> "Task", status |-> stat, reason |-> R_NONE,
                     owner |-> PyNone]
            ELSE IF info.kind = "exception"
               THEN [kind |-> "Error"]    \* an exception has no .get
            ELSE IF reason \notin Reasons
               THEN [kind |-> "Error"]    \* ValueError: no such Reason
            ELSE IF "owner" \notin DOMAIN info
               THEN [kind |-> "Error"]    \* KeyError: 'owner'
            ELSE [kind |-> "Task", status |-> stat, reason |-> reason,
                  owner |-> info.owner]

----------------------------------------------------------------------------
(* routes.authorizer *)

\* an authorizer that asks for the scope and the ownership together
AuthorizerRequiringBoth(task, caller) ==
    IF ~Truthy(task.owner) THEN TRUE
    ELSE /\ caller.scoped
         /\ caller.user # PyNone /\ Str(caller.user) = Str(task.owner)

\* the injected predicate is_authorized(task) for the session `caller`
Authorizer(task, caller) ==
    IF ~Truthy(task.owner) THEN TRUE
    ELSE \/ caller.scoped
         \/ caller.user # PyNone /\ Str(caller.user) = Str(task.owner)

----------------------------------------------------------------------------
(* compiler.do_compile: from the source fetch to the disposition *)

\* outcomes of FileManager.get_source_content
FetchOutcomes == {"ok", "unauthorized", "forbidden", "connection_failed",
                  "not_found", "other_error"}

\* outcomes of Converter.is_available: an answer, botocore's ClientError from
\* the registry login, or another exception
ProbeOutcomes == {"true", "false", "client_error", "other_error"}

\* outcomes of Converter.__call__: (out, log), (None, log), CorruptedSource,
\* another RuntimeError, or an exception that is no RuntimeError
ConverterOutcomes == {"artifact", "no_artifact", "corrupted", "runtime_error",
                      "other_error"}

\* the outcomes the converter of this repository produces
RunnerOutcomes == {"artifact", "no_artifact", "runtime_error", "other_error"}

\* a do_compile whose handler for RuntimeError stands before the one for
\* CorruptedSource
DispositionCorruptedAsDocker(fetch, match, probe, conv) ==
    LET unknown == [status |-> FAILED, reason |-> R_NONE, out |-> FALSE,
                    log |-> FALSE, invoked |-> FALSE,
                    description |-> "Unknown error"]
        fail(r, text) == [unknown EXCEPT !.reason = r, !.description = text]
    IN  IF fetch \in {"unauthorized", "forbidden"}
           THEN fail(R_AUTHORIZATION,
                     "There was a problem authorizing your request.")
        ELSE IF fetch = "connection_failed"
           THEN fail(R_NETWORK,
                     "There was a problem retrieving your source files.")
        ELSE IF fetch = "not_found"
           THEN fail(R_MISSING, "Could not retrieve a matching source "
                                \o "package (not found)")
        ELSE IF fetch # "ok" THEN unknown
        ELSE IF ~match
           THEN fail(R_MISSING, "Could not retrieve a matching source "
                                \o "package: expected <chk>, got <etag>")
        ELSE IF probe = "false"
           THEN fail(R_DOCKER, "Converter is not available")
        ELSE IF probe = "other_error" THEN unknown
        ELSE LET before == IF probe = "client_error"
                           THEN fail(R_DOCKER,
                                     "Failed to obtain compiler image")
                           ELSE unknown
             IN  IF conv \in {"corrupted", "runtime_error"}
                    THEN [fail(R_DOCKER, "<str(e)>") EXCEPT !.invoked = TRUE]
                 ELSE IF conv = "other_error"
                    THEN [before EXCEPT !.invoked = TRUE]
                 ELSE IF conv = "no_artifact"
                    THEN [status |-> FAILED, reason |-> R_COMPILATION,
                          out |-> FALSE, log |-> TRUE, invoked |-> TRUE,
                          description |-> "Failed"]
                 ELSE [status |-> COMPLETED, reason |-> R_NONE,
                       out |-> TRUE, log |-> TRUE, invoked |-> TRUE,
                       description |-> "Success!"]

\* the disposition, out and log that do_compile holds when it reaches the
\* storing step; `invoked` tells whether the converter was called
Disposition(fetch, match, probe, conv) ==
    LET unknown == [status |-> FAILED, reason |-> R_NONE, out |-> FALSE,
                    log |-> FALSE, invoked |-> FALSE,
                    description |-> "Unknown error"]
        fail(r, text) == [unknown EXCEPT !.reason = r, !.description = text]
    IN  IF fetch \in {"unauthorized", "forbidden"}
           THEN fail(R_AUTHORIZATION,
                     "There was a problem authorizing your request.")
        ELSE IF fetch = "connection_failed"
           THEN fail(R_NETWORK,
                     "There was a problem retrieving your source files.")
        ELSE IF fetch = "not_found"
           THEN fail(R_MISSING, "Could not retrieve a matching source "
                                \o "package (not found)")
        ELSE IF fetch # "ok" THEN unknown
        ELSE IF ~match
           THEN fail(R_MISSING, "Could not retrieve a matching source "
                                \o "package: expected <chk>, got <etag>")
        ELSE IF probe = "false"
           THEN fail(R_DOCKER, "Converter is not available")
        ELSE IF probe = "other_error" THEN unknown
        ELSE LET before == IF probe = "client_error"
                           THEN fail(R_DOCKER,
                                     "Failed to obtain compiler image")
                           ELSE unknown
             IN  IF conv = "corrupted"
                    THEN [fail(R_CORRUPTED, "Source package is corrupted")
                             EXCEPT !.invoked = TRUE]
                 ELSE IF conv = "runtime_error"
                    THEN [fail(R_DOCKER, "<str(e)>") EXCEPT !.invoked = TRUE]
                 ELSE IF conv = "other_error"
                    THEN [before EXCEPT !.invoked = TRUE]
                 ELSE IF conv = "no_artifact"
                    THEN [status |-> FAILED, reason |-> R_COMPILATION,
                          out |-> FALSE, log |-> TRUE, invoked |-> TRUE,
                          description |-> "Failed"]
                 ELSE [status |-> COMPLETED, reason |-> R_NONE,
                       out |-> TRUE, log |-> TRUE, invoked |-> TRUE,
                       description |-> "Success!"]

\* every disposition the collaborators' outcomes lead to
Dispositions ==
    {Disposition(fetch, match, probe, conv) :
        fetch \in FetchOutcomes, match \in BOOLEAN, probe \in ProbeOutcomes,
        conv \in RunnerOutcomes}

\* the dispositions the system model draws, one of each kind: an artifact and
\* a log to store, a log only, a classified failure with nothing to store,
\* and the failure no handler classified
DrawnDispositions ==
    {Disposition("ok", TRUE, "true", "artifact"),
     Disposition("ok", TRUE, "true", "no_artifact"),
     Disposition("not_found", TRUE, "true", "artifact"),
     Disposition("other_error", TRUE, "true", "artifact")}

\* a storing step that keeps the disposition when a store write raised
StorageFailureKeepingDisposition(e) == e

\* the Task that replaces the disposition when a store write raised
StorageFailure(e) == [e EXCEPT !.status = FAILED, !.reason = R_STORAGE]

\* outcomes of one StoreSession.store / store_log call: both writes done, the
\* blob's put_object raised, or the blob was put and set_status raised
StoreOutcomes == {"ok", "put_fails", "status_fails"}

----------------------------------------------------------------------------
(* State *)

VARIABLES
    backend,      \* result backend: task id -> [status, result]
    queue,        \* broker queue: the jobs published and not yet delivered
    st_status,    \* object store, {key}/status.json: a Task dict or absent
    st_artifact,  \* object store, {key}/{src}.{ext}: present or not
    st_log,       \* object store, {key}/{src}.{ext}.log: present or not
    req,          \* compile requests past their first step: position in
                  \* controllers.compile; `recompile` tells that the
                  \* request has force=true and the triple had a task, and
                  \* goes with the job it publishes
    exec,         \* the workers: position in do_compile
    redelivered,  \* jobs delivered again so far
    enqueued,     \* jobs published so far, per task id
    forced,       \* a compile request with force=true was made, per task id
    src_owner,    \* the owner the source service reports for the source
    response      \* the response given in this step, if one was given

vars == <<backend, queue, st_status, st_artifact, st_log, req, exec,
          redelivered, enqueued, forced, src_owner, response>>

NoResponse == [kind |-> "none"]

\* no status.json under the key
NoStatus == [kind |-> "absent"]

IdleReq == [pc |-> "idle", task |-> None, owner |-> PyNone,
            recompile |-> FALSE]

DoneReq == [IdleReq EXCEPT !.pc = "done"]

IdleExec == [pc |-> "idle", task |-> None, owner |-> PyNone, status |-> None,
             reason |-> None, out |-> FALSE, log |-> FALSE,
             after_terminal |-> FALSE, recompile |-> FALSE,
             puts |-> 0,
             log_puts |-> 0]

\* nothing dispatched, nothing stored
Fresh ==
    /\ backend = [t \in Tasks |-> MetaPending]
    /\ queue = <<>>
    /\ st_status = [t \in Tasks |-> NoStatus]
    /\ st_artifact = [t \in Tasks |-> FALSE]
    /\ st_log = [t \in Tasks |-> FALSE]
    /\ req = [r \in Reqs |-> IdleReq]
    /\ exec = [w \in Workers |-> IdleExec]
    /\ redelivered = 0
    /\ enqueued = [t \in Tasks |-> 0]
    /\ forced = [t \in Tasks |-> FALSE]
    /\ src_owner \in OwnerValues

Init == Fresh /\ response = NoResponse

StoreVars == <<st_status, st_artifact, st_log>>

Ghosts == <<enqueued, forced, src_owner>>

\* compile requests that went on to start_compilation, and jobs delivered
\* again: what MaxJobs bounds
Started == Cardinality({r \in Reqs : req[r].pc # "idle"}) + redelivered

\* the requests drawn: a malformed one is drawn for one caller only
Drawn(valid, caller) == valid \/ caller = [user |-> PyNone, scoped |-> FALSE]

----------------------------------------------------------------------------
(* controllers.compile *)

\* outcomes of FileManager.owner: the owner (None raised), or an exception
OwnerOutcomes == {None, "forbidden", "unauthorized", "other_error"}

\* the answer of the lookup branch (`if not force`) for what get_task gave:
\* 0 stands for going on to create the task
LookupCode(found, caller) ==
    IF found.kind = "NoSuchTask" THEN 0
    ELSE IF found.kind = "Error" THEN 500
    ELSE IF ~Authorizer(found, caller) THEN 403
    ELSE 303

\* the answer of _get_owner when FileManager.owner raised `raised`: the inner
\* handler turns every exception into NotFound; 0 stands for no exception
GetOwnerCode(raised) == IF raised = None THEN 0 ELSE 404

\* the answer of compile before start_compilation: validation, then the
\* lookup unless force is set, then the owner fetch; 0 stands for going on
\* to start_compilation
FirstCode(found, force, valid, caller, raised) ==
    IF ~valid THEN 400
    ELSE IF ~force /\ LookupCode(found, caller) # 0
         THEN LookupCode(found, caller)
    ELSE GetOwnerCode(raised)

\* url_for('api.get_status', ...): the status URL of the triple
StatusUrl(t) == "/" \o t

\* the Location header of _redirect_to_status, given with 303 and 202
Location(t, code) == IF code \in {202, 303} THEN StatusUrl(t) ELSE None

\* the response of controllers.compile
CompileResponse(t, force, valid, caller, found, code) ==
    [kind |-> "compile", task |-> t, force |-> force, valid |-> valid,
     caller |-> caller, found |-> found, code |-> code,
     location |-> Location(t, code)]

\* the response of a compile request that went on to start_compilation
StartResponse(t, code) ==
    [kind |-> "start", task |-> t, code |-> code,
     location |-> Location(t, code)]

\* a compile request that is answered before start_compilation; the
\* outcome of the owner fetch is drawn only where the fetch happens
CompileAnswer(t, force, valid, caller, raised) ==
    LET found == GetTask(backend[t])
        code == FirstCode(found, force, valid, caller, raised)
        fetched == valid /\ (force \/ LookupCode(found, caller) = 0)
    IN  /\ Drawn(valid, caller) /\ (valid \/ ~force)
        /\ IF fetched THEN raised # None ELSE raised = None
        /\ code # 0
        /\ response' = CompileResponse(t, force, valid, caller, found, code)
        /\ UNCHANGED <<backend, queue, StoreVars, req, exec, redelivered,
                       Ghosts>>

\* a compile request that passes validation, the lookup and the owner fetch
CompileLookup(r, t, force, caller) ==
    /\ req[r].pc = "idle"
    /\ \A q \in Reqs : q < r => req[q].pc # "idle"
    /\ Started < MaxJobs
    /\ FirstCode(GetTask(backend[t]), force, TRUE, caller, None) = 0
    /\ req' = [req EXCEPT ![r] = [pc |-> "publish", task |-> t,
                                  owner |-> src_owner,
                                  recompile |->
                                      force /\ backend[t] # MetaPending]]
    /\ forced' = [forced EXCEPT ![t] = @ \/ force]
    /\ response' = NoResponse
    /\ UNCHANGED <<backend, queue, StoreVars, exec, redelivered, enqueued,
                   src_owner>>

\* a start_compilation that marks the task SENT before it publishes
CompilePublishMarkingFirst(r) ==
    /\ req[r].pc = "publish"
    /\ backend' = [backend EXCEPT ![req[r].task] =
                      [status |-> "SENT", result |-> InfoNone]]
    /\ req' = [req EXCEPT ![r] = DoneReq]
    /\ response' = StartResponse(req[r].task, 500)
    /\ UNCHANGED <<queue, StoreVars, exec, redelivered, Ghosts>>

\* start_compilation: apply_async publishes the job, or raises
\* (TaskCreationFailed, answered 500)
CompilePublish(r) ==
    /\ req[r].pc = "publish"
    /\ \E published \in BOOLEAN :
          IF published
          THEN /\ queue' = Append(queue, [task |-> req[r].task,
                                          owner |-> req[r].owner,
                                          again |-> FALSE,
                                          recompile |-> req[r].recompile])
               /\ req' = [req EXCEPT ![r].pc = "mark_sent",
                                      ![r].recompile = FALSE]
               /\ enqueued' = [enqueued EXCEPT ![req[r].task] = @ + 1]
               /\ response' = NoResponse
          ELSE /\ req' = [req EXCEPT ![r] = DoneReq]
               /\ response' = StartResponse(req[r].task, 500)
               /\ UNCHANGED <<queue, enqueued>>
    /\ UNCHANGED <<backend, StoreVars, exec, redelivered, forced, src_owner>>

\* a _mark_sent that stores nothing
SentMetaMissing == MetaPending

\* the row _mark_sent stores
SentMeta == [status |-> "SENT", result |-> InfoNone]

\* _mark_sent, run by after_task_publish, then the 202 answer
CompileMarkSent(r) ==
    /\ req[r].pc = "mark_sent"
    /\ backend' = [backend EXCEPT ![req[r].task] = SentMeta]
    /\ req' = [req EXCEPT ![r] = DoneReq]
    /\ response' = StartResponse(req[r].task, 202)
    /\ UNCHANGED <<queue, StoreVars, exec, redelivered, Ghosts>>

----------------------------------------------------------------------------
(* The worker: compiler.do_compile *)

\* get_task reports a terminal status for the row
Terminal(meta) ==
    LET g == GetTask(meta)
    IN  g.kind = "Task" /\ g.status \in {COMPLETED, FAILED}

\* a storing step that does not move past the artifact
AfterDispositionRepeating(out, log) ==
    IF out \/ log THEN "store" ELSE "return"

\* where do_compile goes after the disposition: the storing step writes the
\* artifact if there is one, then the log if there is one
AfterDisposition(out, log) ==
    IF out THEN "store" ELSE IF log THEN "store_log" ELSE "return"

\* a job is delivered and do_compile runs up to the storing step, or raises
\* before its try block (tempfile.mkdtemp)
Begin(w) ==
    /\ exec[w].pc = "idle"
    /\ queue # <<>>
    /\ LET msg == Head(queue)
           base == [IdleExec EXCEPT !.task = msg.task, !.owner = msg.owner,
                       !.recompile = msg.recompile,
                       !.after_terminal =
                           msg.again /\ Terminal(backend[msg.task])]
       IN  \/ exec' = [exec EXCEPT ![w] = [base EXCEPT !.pc = "raise"]]
           \/ \E d \in DrawnDispositions :
                 exec' = [exec EXCEPT ![w] =
                            [base EXCEPT
                               !.pc = AfterDisposition(d.out, d.log),
                               !.status = d.status, !.reason = d.reason,
                               !.out = d.out, !.log = d.log]]
    /\ queue' = Tail(queue)
    /\ response' = NoResponse
    /\ UNCHANGED <<backend, StoreVars, req, redelivered, Ghosts>>

\* store.store(Product(stream=f), task): put the artifact, then set_status
StoreProduct(w) ==
    /\ exec[w].pc = "store"
    /\ LET e == exec[w]
           t == e.task
       IN  \E o \in StoreOutcomes :
              /\ st_artifact' = [st_artifact EXCEPT
                                    ![t] = @ \/ (o # "put_fails")]
              /\ st_status' = [st_status EXCEPT ![t] =
                                  IF o = "ok"
                                  THEN TaskDict(e.status, e.reason, e.owner)
                                  ELSE @]
              /\ exec' = [exec EXCEPT ![w] =
                            LET put == [e EXCEPT !.puts =
                                          IF o # "put_fails" THEN @ + 1 ELSE @]
                            IN  IF o = "ok"
                                THEN [put EXCEPT !.pc =
                                        AfterDisposition(FALSE, e.log)]
                                ELSE [StorageFailure(put) EXCEPT
                                        !.pc = "return"]]
    /\ response' = NoResponse
    /\ UNCHANGED <<backend, queue, st_log, req, redelivered, Ghosts>>

\* store.store_log(Product(stream=log_f), task): put the log, then set_status
StoreLog(w) ==
    /\ exec[w].pc = "store_log"
    /\ LET e == exec[w]
           t == e.task
       IN  \E o \in StoreOutcomes :
              /\ st_log' = [st_log EXCEPT ![t] = @ \/ (o # "put_fails")]
              /\ st_status' = [st_status EXCEPT ![t] =
                                  IF o = "ok"
                                  THEN TaskDict(e.status, e.reason, e.owner)
                                  ELSE @]
              /\ exec' = [exec EXCEPT ![w] =
                            LET put == [e EXCEPT !.log_puts =
                                          IF o # "put_fails" THEN @ + 1 ELSE @]
                            IN  IF o = "ok"
                                THEN [put EXCEPT !.pc = "return"]
                                ELSE [StorageFailure(put) EXCEPT
                                        !.pc = "return"]]
    /\ response' = NoResponse
    /\ UNCHANGED <<backend, queue, st_artifact, req, redelivered, Ghosts>>

\* the row the worker stores when do_compile ends: its return value under
\* SUCCESS, or the exception under FAILURE
ResultMeta(e) ==
    IF e.pc = "raise" THEN [status |-> "FAILURE", result |-> InfoException]
    ELSE [status |-> "SUCCESS",
          result |-> TaskDict(e.status, e.reason, e.owner)]

\* do_compile ends: the worker stores the result and acknowledges the job
\* (task_acks_late); if the acknowledgement is lost the broker delivers the
\* job again
Return(w) ==
    /\ exec[w].pc \in {"return", "raise"}
    /\ backend' = [backend EXCEPT ![exec[w].task] = ResultMeta(exec[w])]
    /\ exec' = [exec EXCEPT ![w] = IdleExec]
    /\ \E acked \in BOOLEAN :
          IF acked \/ redelivered >= MaxRedeliveries \/ Started >= MaxJobs
          THEN UNCHANGED <<queue, redelivered>>
          ELSE /\ queue' = Append(queue, [task |-> exec[w].task,
                                          owner |-> exec[w].owner,
                                          again |-> TRUE,
                                          recompile |-> exec[w].recompile])
               /\ redelivered' = redelivered + 1
    /\ response' = NoResponse
    /\ UNCHANGED <<StoreVars, req, Ghosts>>

----------------------------------------------------------------------------
(* The read controllers: get_status, get_product, get_log *)

\* the output format of a task id
FormatOf(t) == "pdf"

\* Format.content_type
ContentType(fmt) ==
    IF fmt = "pdf" THEN "application/pdf"
    ELSE IF fmt = "dvi" THEN "application/x-dvi"
    ELSE "application/postscript"

\* the status code of controllers.get_status
GetStatusCode(found, caller, valid) ==
    IF ~valid THEN 400
    ELSE IF found.kind = "NoSuchTask" THEN 404
    ELSE IF found.kind = "Error" THEN 500
    ELSE IF ~Authorizer(found, caller) THEN 403
    ELSE 200

\* a get_product that asks the store before the authorizer
GetProductCodeStoreFirst(found, caller, valid, artifact) ==
    IF ~valid THEN 400
    ELSE IF found.kind = "NoSuchTask" THEN 404
    ELSE IF found.kind = "Error" THEN 500
    ELSE IF ~artifact THEN 404
    ELSE IF ~Authorizer(found, caller) THEN 403
    ELSE 200

\* the status code of controllers.get_product; `artifact` tells whether
\* store.retrieve finds the blob
GetProductCode(found, caller, valid, artifact) ==
    IF ~valid THEN 400
    ELSE IF found.kind = "NoSuchTask" THEN 404
    ELSE IF found.kind = "Error" THEN 500
    ELSE IF ~Authorizer(found, caller) THEN 403
    ELSE IF ~artifact THEN 404
    ELSE 200

\* the status code of controllers.get_log; `log` tells whether
\* store.retrieve_log finds the blob
GetLogCode(found, caller, valid, log) ==
    IF ~valid THEN 400
    ELSE IF found.kind = "NoSuchTask" THEN 404
    ELSE IF found.kind = "Error" THEN 500
    ELSE IF ~Authorizer(found, caller) THEN 403
    ELSE IF ~log THEN 404
    ELSE 200

\* the response of a read controller
ReadResponse(kind, t, caller, valid, found, code, ctype) ==
    [kind |-> kind, task |-> t, caller |-> caller, valid |-> valid,
     found |-> found, code |-> code,
     content_type |-> IF code = 200 THEN ctype ELSE None]

\* GET /{src}/{chk}/{fmt}
GetStatus(t, caller, valid) ==
    /\ Drawn(valid, caller)
    /\ LET found == GetTask(backend[t])
       IN  response' = ReadResponse("get_status", t, caller, valid, found,
                          GetStatusCode(found, caller, valid),
                          "application/json")
    /\ UNCHANGED <<backend, queue, StoreVars, req, exec, redelivered, Ghosts>>

\* GET /{src}/{chk}/{fmt}/product
GetProduct(t, caller, valid) ==
    /\ Drawn(valid, caller)
    /\ LET found == GetTask(backend[t])
       IN  response' = ReadResponse("get_product", t, caller, valid, found,
                          GetProductCode(found, caller, valid, st_artifact[t]),
                          ContentType(FormatOf(t)))
    /\ UNCHANGED <<backend, queue, StoreVars, req, exec, redelivered, Ghosts>>

\* GET /{src}/{chk}/{fmt}/log
GetLog(t, caller, valid) ==
    /\ Drawn(valid, caller)
    /\ LET found == GetTask(backend[t])
       IN  response' = ReadResponse("get_log", t, caller, valid, found,
                          GetLogCode(found, caller, valid, st_log[t]),
                          "text/plain")
    /\ UNCHANGED <<backend, queue, StoreVars, req, exec, redelivered, Ghosts>>

----------------------------------------------------------------------------
(* The system *)

Next ==
    \/ \E t \in Tasks, force \in BOOLEAN, valid \in BOOLEAN,
          caller \in Callers, raised \in OwnerOutcomes :
          CompileAnswer(t, force, valid, caller, raised)
    \/ \E r \in Reqs, t \in Tasks, force \in BOOLEAN, caller \in Callers :
          CompileLookup(r, t, force, caller)
    \/ \E r \in Reqs : CompilePublish(r)
    \/ \E r \in Reqs : CompileMarkSent(r)
    \/ \E w \in Workers : Begin(w)
    \/ \E w \in Workers : StoreProduct(w)
    \/ \E w \in Workers : StoreLog(w)
    \/ \E w \in Workers : Return(w)
    \/ \E t \in Tasks, caller \in Callers, valid \in BOOLEAN :
          GetStatus(t, caller, valid)
    \/ \E t \in Tasks, caller \in Callers, valid \in BOOLEAN :
          GetProduct(t, caller, valid)
    \/ \E t \in Tasks, caller \in Callers, valid \in BOOLEAN :
          GetLog(t, caller, valid)

Spec == Init /\ [][Next]_vars

----------------------------------------------------------------------------
(* The authorizer on its own *)

\* owners a Task carries: none, or a user id as a str or an int
AuthOwners == {PyNone, PyStr(""), PyStr("84843"), PyInt("84843"),
               PyStr("123")}

\* user ids of a session's user; PyNone for a session without user
AuthUsers == {PyNone, PyStr("84843"), PyInt("84843"), PyStr("123")}

\* the calls of the authorizer drawn: a Task and a session
AuthorizerCalls ==
    {[kind |-> "authorizer_call",
      task |-> [kind |-> "Task", status |-> st, reason |-> R_NONE,
                owner |-> o],
      caller |-> [user |-> u, scoped |-> sc],
      answer |-> FALSE] :
        st \in {IN_PROGRESS, COMPLETED, FAILED}, o \in AuthOwners,
        u \in AuthUsers, sc \in BOOLEAN}

AuthInit == Fresh /\ response \in AuthorizerCalls

\* is_authorized(task) is evaluated
Authorize ==
    /\ response.kind = "authorizer_call"
    /\ response' = [response EXCEPT
                       !.kind = "authorizer_answer",
                       !.answer = Authorizer(response.task, response.caller)]
    /\ UNCHANGED <<backend, queue, StoreVars, req, exec, redelivered, Ghosts>>

AuthNext == Authorize

AuthSpec == AuthInit /\ [][AuthNext]_vars

----------------------------------------------------------------------------
(* compiler.get_task as a function of the result-backend row *)

\* results a SUCCESS row can hold: a serialized Task, and dicts that carry
\* no status
StoredResults ==
    {TaskDict(st, rs, o) : st \in Statuses, rs \in Reasons,
                           o \in {PyNone, PyStr("84843")}}
        \cup {[kind |-> "dict", owner |-> o] : o \in {PyNone, PyStr("84843")}}
        \cup {[kind |-> "dict"]}

\* the rows get_task is applied to
BackendRows ==
    {MetaPending}
        \cup {[status |-> s, result |-> InfoNone] :
                 s \in {"SENT", "STARTED", "RETRY"}}
        \cup {[status |-> "FAILURE", result |-> InfoException]}
        \cup {[status |-> "SUCCESS", result |-> d] : d \in StoredResults}

GetTaskCalls == {[kind |-> "get_task_call", row |-> m] : m \in BackendRows}

GetTaskInit == Fresh /\ response \in GetTaskCalls

\* get_task is evaluated on the row
ApplyGetTask ==
    /\ response.kind = "get_task_call"
    /\ response' = [kind |-> "get_task_answer", row |-> response.row,
                    answer |-> GetTask(response.row)]
    /\ UNCHANGED <<backend, queue, StoreVars, req, exec, redelivered, Ghosts>>

GetTaskNext == ApplyGetTask

GetTaskSpec == GetTaskInit /\ [][GetTaskNext]_vars

----------------------------------------------------------------------------
(* compiler.do_compile as a function of its collaborators' outcomes *)

\* the storing step applied to disposition d: the Task do_compile returns,
\* the blobs it put, the number of store calls it made and the status
\* records it tried to write (each store call writes its blob and then the
\* status record of the Task it was given); so and lo are the outcomes of
\* store.store and store.store_log, called only when there is an out or a
\* log and, for the log, only when storing the artifact did not raise
Stored(d, so, lo) ==
    LET first == ~d.out \/ so = "ok"
        both == first /\ (~d.log \/ lo = "ok")
        task == IF both THEN d ELSE StorageFailure(d)
        called == (IF d.out THEN 1 ELSE 0)
                      + (IF first /\ d.log THEN 1 ELSE 0)
        put == (IF d.out /\ so # "put_fails" THEN 1 ELSE 0)
                   + (IF first /\ d.log /\ lo # "put_fails" THEN 1 ELSE 0)
    IN  [status |-> task.status, reason |-> task.reason,
         description |-> IF both THEN d.description
                         ELSE "Failed to store result",
         invoked |-> d.invoked,
         artifact |-> d.out /\ so # "put_fails",
         log |-> first /\ d.log /\ lo # "put_fails",
         store_calls |-> called,
         status_writes |-> IF put > 0
                           THEN {[status |-> d.status, reason |-> d.reason]}
                           ELSE {}]

\* a do_compile that goes on after the source fetch raised
DoCompileResultIgnoringFetch(fetch, match, probe, conv, so, lo) ==
    Stored(Disposition("ok", match, probe, conv), so, lo)

\* what do_compile returns and stores once its scratch directory exists
DoCompileResult(fetch, match, probe, conv, so, lo) ==
    Stored(Disposition(fetch, match, probe, conv), so, lo)

\* outcomes of shutil.rmtree(src_dir)
RmtreeOutcomes == {"ok", "raises"}

\* a clean-up whose failure replaces the Task
CleanupReplacingTask(task, rm) ==
    [task |-> IF rm = "ok" THEN task
              ELSE [task EXCEPT !.status = FAILED, !.reason = R_NONE,
                                !.description = "Unknown error"],
     scratch |-> IF rm = "ok" THEN "removed" ELSE "exists",
     attempts |-> 1,
     logged |-> rm # "ok"]

\* the clean-up and the return: the Task returned, the scratch directory
\* mkdtemp created, the number of calls of rmtree and whether a failure of
\* the removal was logged
Cleanup(task, rm) ==
    [task |-> task,
     scratch |-> IF rm = "ok" THEN "removed" ELSE "exists",
     attempts |-> 1,
     logged |-> rm # "ok"]

\* the executions drawn: one outcome for each collaborator
DoCompileCalls ==
    {[kind |-> "do_compile_call", fetch |-> fetch, match |-> match,
      probe |-> probe, conv |-> conv, store |-> so, store_log |-> lo,
      rmtree |-> rm] :
        fetch \in FetchOutcomes, match \in BOOLEAN, probe \in ProbeOutcomes,
        conv \in ConverterOutcomes, so \in StoreOutcomes,
        lo \in StoreOutcomes, rm \in RmtreeOutcomes}

DoCompileInit == Fresh /\ response \in DoCompileCalls

\* do_compile runs from the source fetch to its return
ApplyDoCompile ==
    /\ response.kind = "do_compile_call"
    /\ LET end == Cleanup(DoCompileResult(response.fetch, response.match,
                               response.probe, response.conv,
                               response.store, response.store_log),
                           response.rmtree)
       IN  response' = [kind |-> "do_compile_answer", call |-> response,
                        task |-> end.task, scratch |-> end.scratch,
                        rmtree_calls |-> end.attempts,
                        rmtree_logged |-> end.logged]
    /\ UNCHANGED <<backend, queue, StoreVars, req, exec, redelivered, Ghosts>>

DoCompileNext == ApplyDoCompile

DoCompileSpec == DoCompileInit /\ [][DoCompileNext]_vars

----------------------------------------------------------------------------
(* compiler.does_checksum_match; text is a sequence of code points, bytes a
   sequence of numbers below 256 *)

\* the value of a character of the standard base64 alphabet (A-Z a-z 0-9 + /),
\* -1 for any other character
B64Index(c) ==
    IF c \in 65..90 THEN c - 65
    ELSE IF c \in 97..122 THEN c - 71
    ELSE IF c \in 48..57 THEN c + 4
    ELSE IF c = 43 THEN 62
    ELSE IF c = 47 THEN 63
    ELSE -1

\* binascii.a2b_base64 without strict mode, reading s from position i: the
\* values of the data characters read, and whether the input ends on a
\* whole group. Characters outside the alphabet are skipped; padding that
\* completes a group ends the reading.
RECURSIVE A2BScan(_, _, _, _, _)
A2BScan(s, i, quad, pads, six) ==
    IF i > Len(s) THEN [ok |-> quad = 0, six |-> six]
    ELSE IF s[i] = 61
         THEN IF quad >= 2 /\ pads + 1 >= 4 - quad
              THEN [ok |-> TRUE, six |-> six]
              ELSE A2BScan(s, i + 1, quad, pads + 1, six)
    ELSE IF B64Index(s[i]) < 0 THEN A2BScan(s, i + 1, quad, pads, six)
    ELSE A2BScan(s, i + 1, (quad + 1) % 4, 0, Append(six, B64Index(s[i])))

\* the three bytes of the group of four values that starts at position g
GroupBytes(six, g) ==
    LET v(k) == IF g + k <= Len(six) THEN six[g + k] ELSE 0
        x == v(0) * 262144 + v(1) * 4096 + v(2) * 64 + v(3)
    IN  <<x \div 65536, (x \div 256) % 256, x % 256>>

RECURSIVE SixToBytes(_, _)
SixToBytes(six, g) ==
    IF g > Len(six) THEN <<>>
    ELSE GroupBytes(six, g) \o SixToBytes(six, g + 4)

\* base64.b64decode(s): the bytes, or binascii.Error
B64Decode(s) ==
    LET scan == A2BScan(s, 1, 0, 0, <<>>)
    IN  IF ~scan.ok THEN [ok |-> FALSE, bytes |-> <<>>]
        ELSE [ok |-> TRUE,
              bytes |-> SubSeq(SixToBytes(scan.six, 1), 1,
                               (6 * Len(scan.six)) \div 8)]

\* whether b is a continuation byte in lo..hi
Cont(b, i, lo, hi) == i <= Len(b) /\ b[i] \in lo..hi

\* bytes.decode('utf-8') from position i: the text, or UnicodeDecodeError
RECURSIVE Utf8Decode(_, _)
Utf8Decode(b, i) ==
    IF i > Len(b) THEN [ok |-> TRUE, text |-> <<>>]
    ELSE LET c == b[i]
             n == IF c < 128 THEN 1
                  ELSE IF c \in 194..223 /\ Cont(b, i + 1, 128, 191) THEN 2
                  ELSE IF c \in 224..239
                          /\ Cont(b, i + 1, IF c = 224 THEN 160 ELSE 128,
                                            IF c = 237 THEN 159 ELSE 191)
                          /\ Cont(b, i + 2, 128, 191) THEN 3
                  ELSE IF c \in 240..244
                          /\ Cont(b, i + 1, IF c = 240 THEN 144 ELSE 128,
                                            IF c = 244 THEN 143 ELSE 191)
                          /\ Cont(b, i + 2, 128, 191)
                          /\ Cont(b, i + 3, 128, 191) THEN 4
                  ELSE 0
             point == IF n = 1 THEN c
                      ELSE IF n = 2 THEN (c - 192) * 64 + (b[i + 1] - 128)
                      ELSE IF n = 3
                           THEN (c - 224) * 4096 + (b[i + 1] - 128) * 64
                                + (b[i + 2] - 128)
                      ELSE (c - 240) * 262144 + (b[i + 1] - 128) * 4096
                           + (b[i + 2] - 128) * 64 + (b[i + 3] - 128)
             rest == Utf8Decode(b, i + n)
         IN  IF n = 0 \/ ~rest.ok THEN [ok |-> FALSE, text |-> <<>>]
             ELSE [ok |-> TRUE, text |-> <<point>> \o rest.text]

\* does_checksum_match(source, expected), etag being source.etag and verify
\* the configured FILEMANAGER_VERIFY_CHECKSUM
DoesChecksumMatch(verify, etag, expected) ==
    IF ~verify THEN TRUE
    ELSE IF etag = expected THEN TRUE
    ELSE LET raw == B64Decode(expected)
             decoded == IF raw.ok THEN Utf8Decode(raw.bytes, 1)
                        ELSE [ok |-> FALSE, text |-> <<>>]
         IN  decoded.ok /\ etag = decoded.text

\* etags of fetched sources: 'abc', '>>>', 'YWJj' and the copyright sign
Etags == {<<97, 98, 99>>, <<62, 62, 62>>, <<89, 87, 74, 106>>, <<169>>}

\* requested checksums, all from the alphabet _validate_checksum admits:
\* 'YWJj', 'Pj4-', 'wqk=', 'abc', 'a1b2c3d4' and 'YWJj----'
Checksums ==
    {<<89, 87, 74, 106>>, <<80, 106, 52, 45>>, <<119, 113, 107, 61>>,
     <<97, 98, 99>>, <<97, 49, 98, 50, 99, 51, 100, 52>>,
     <<89, 87, 74, 106, 45, 45, 45, 45>>}

\* the executions drawn: the fetch returned a source with this etag
ChecksumCalls ==
    {[kind |-> "checksum_call", verify |-> verify, etag |-> etag,
      expected |-> expected, conv |-> conv] :
        verify \in BOOLEAN, etag \in Etags, expected \in Checksums,
        conv \in ConverterOutcomes}

ChecksumInit == Fresh /\ response \in ChecksumCalls

\* do_compile runs from the checksum comparison to its return
ApplyChecksum ==
    /\ response.kind = "checksum_call"
    /\ LET match == DoesChecksumMatch(response.verify, response.etag,
                                      response.expected)
           end == Cleanup(DoCompileResult("ok", match, "true",
                                          response.conv, "ok", "ok"), "ok")
       IN  response' = [kind |-> "checksum_answer", call |-> response,
                        task |-> end.task, scratch |-> end.scratch]
    /\ UNCHANGED <<backend, queue, StoreVars, req, exec, redelivered, Ghosts>>

ChecksumNext == ApplyChecksum

ChecksumSpec == ChecksumInit /\ [][ChecksumNext]_vars

----------------------------------------------------------------------------
(* services.filemanager: FileManagementService._make_request,
   get_source_content and _save_content; a path is a sequence of segments,
   taken from the root *)

\* outcomes of the session's HTTP call: a response, requests' SSLError, or
\* another ConnectionError
TransportOutcomes == {"response", "ssl_error", "connection_error"}

\* status codes of the responses drawn
StatusCodes == {200, 201, 204, 302, 400, 401, 403, 404, 413, 422, 500, 503}

\* the exception _make_request raises, None when it returns the response
MakeRequest(transport, code, expected_code) ==
    IF transport = "ssl_error" THEN "SecurityException"
    ELSE IF transport = "connection_error" THEN "ConnectionFailed"
    ELSE IF code >= 500 THEN "RequestFailed"
    ELSE IF code = 401 THEN "RequestUnauthorized"
    ELSE IF code = 403 THEN "RequestForbidden"
    ELSE IF code = 404 THEN "NotFound"
    ELSE IF code >= 400 THEN "BadRequest"
    ELSE IF code # expected_code THEN "RequestFailed"
    ELSE None

\* the directory get_source_content saves to
SaveTo == <<"tmp", "src_dir">>

\* content-disposition headers drawn: none, 'filename=foo.tar.gz',
\* 'filename="foo.tar.gz"', 'filename=../whereDoesThisGetWritten.txt',
\* 'filename=../../etc/passwd' and 'filename=//bin/bash'
ContentDispositions ==
    {[present |-> FALSE, quoted |-> FALSE, absolute |-> FALSE,
      segments |-> <<>>],
     [present |-> TRUE, quoted |-> FALSE, absolute |-> FALSE,
      segments |-> <<"foo.tar.gz">>],
     [present |-> TRUE, quoted |-> TRUE, absolute |-> FALSE,
      segments |-> <<"foo.tar.gz">>],
     [present |-> TRUE, quoted |-> FALSE, absolute |-> FALSE,
      segments |-> <<"..", "whereDoesThisGetWritten.txt">>],
     [present |-> TRUE, quoted |-> FALSE, absolute |-> FALSE,
      segments |-> <<"..", "..", "etc", "passwd">>],
     [present |-> TRUE, quoted |-> FALSE, absolute |-> TRUE,
      segments |-> <<"bin", "bash">>]}

\* the filename _save_content takes from the header (quotes stripped), or
\* '{source_id}.tar.gz' without a filename in the header
FilenameOf(header, source_id) ==
    IF header.present
    THEN [absolute |-> header.absolute, segments |-> header.segments]
    ELSE [absolute |-> FALSE, segments |-> <<source_id \o ".tar.gz">>]

\* os.path.join(source_dir, filename): an absolute filename replaces the
\* directory
JoinPath(dir, filename) ==
    IF filename.absolute THEN filename.segments
    ELSE dir \o filename.segments

\* the file a path names: '..' steps to the parent, the root being its own
RECURSIVE Resolve(_, _)
Resolve(path, at) ==
    IF path = <<>> THEN at
    ELSE IF Head(path) = ".."
         THEN Resolve(Tail(path),
                      IF at = <<>> THEN <<>> ELSE SubSeq(at, 1, Len(at) - 1))
    ELSE Resolve(Tail(path), Append(at, Head(path)))

\* _save_content: the path it returns and the file it writes
SaveContent(header, source_id, source_dir) ==
    LET source_file_path == JoinPath(source_dir,
                                     FilenameOf(header, source_id))
    IN  [path |-> source_file_path,
         written |-> Resolve(source_file_path, <<>>)]

\* get_source_content(source_id, save_to): the exception raised (None when it
\* returns), the path of the SourcePackage and the file written (empty when
\* none is)
GetSourceContent(transport, code, header, source_id, save_to) ==
    LET raised == MakeRequest(transport, code, 200)
        saved == SaveContent(header, source_id, save_to)
    IN  IF raised # None
        THEN [raised |-> raised, path |-> <<>>, written |-> <<>>]
        ELSE [raised |-> None, path |-> saved.path,
              written |-> saved.written]

\* the fetches drawn
SourceCalls ==
    {[kind |-> "source_call", transport |-> tr, code |-> code,
      header |-> h] :
        tr \in TransportOutcomes, code \in StatusCodes,
        h \in ContentDispositions}

SourceInit == Fresh /\ response \in SourceCalls

\* get_source_content runs
ApplyGetSourceContent ==
    /\ response.kind = "source_call"
    /\ response' = [kind |-> "source_answer", call |-> response,
                    result |-> GetSourceContent(response.transport,
                                   response.code, response.header, "54",
                                   SaveTo)]
    /\ UNCHANGED <<backend, queue, StoreVars, req, exec, redelivered, Ghosts>>

SourceNext == ApplyGetSourceContent

SourceSpec == SourceInit /\ [][SourceNext]_vars

----------------------------------------------------------------------------
(* The task id and the storage key of a triple; a string is a sequence of
   characters *)

MaxIdLen == 2

\* the strings over the characters cs that have 1..MaxIdLen characters
Strings(cs) == UNION {[1..n -> cs] : n \in 1..MaxIdLen}

\* _is_valid_source_id, among the characters drawn: letters, digits and
\* '.', '-', '_' are allowed, '/' is not
ValidSourceId(source_id) ==
    /\ source_id # <<>>
    /\ \A i \in DOMAIN source_id : source_id[i] \in {"a", "5", "."}

\* is_urlsafe_base64, among the characters drawn
ValidChecksum(checksum) ==
    /\ checksum # <<>>
    /\ \A i \in DOMAIN checksum : checksum[i] \in {"a", "5", "="}

\* the values of Format
Formats == {<<"p", "d", "f">>, <<"d", "v", "i">>, <<"p", "s">>}

\* a task id without separators
GetTaskIdUnseparated(src_id, chk, fmt) == src_id \o chk \o fmt

\* compiler._get_task_id
GetTaskId(src_id, chk, fmt) == src_id \o <<"/">> \o chk \o <<"/">> \o fmt

\* StoreSession._key
StoreKey(source_id, checksum, output_format) ==
    source_id \o <<"/">> \o checksum \o <<"/">> \o output_format

\* the triples requested
Triples ==
    [source_id : Strings({"a", "/"}), checksum : Strings({"a", "="}),
     output_format : Formats \cup {<<"h", "t", "m", "l">>}]

\* what the validators of the controllers make of a triple: BadRequest, or
\* the task id dispatch uses and the key prefix the store uses
Identify(triple) ==
    IF /\ ValidSourceId(triple.source_id)
       /\ ValidChecksum(triple.checksum)
       /\ triple.output_format \in Formats
    THEN [valid |-> TRUE,
          task_id |-> GetTaskId(triple.source_id, triple.checksum,
                                triple.output_format),
          key |-> StoreKey(triple.source_id, triple.checksum,
                           triple.output_format)]
    ELSE [valid |-> FALSE, task_id |-> <<>>, key |-> <<>>]

TaskIdInit ==
    /\ Fresh
    /\ response \in {[kind |-> "task_id_call", a |-> a, b |-> b] :
                        a \in Triples, b \in Triples}

\* two requests are validated and identified
ApplyTaskId ==
    /\ response.kind = "task_id_call"
    /\ response' = [kind |-> "task_id_answer", a |-> response.a,
                    b |-> response.b, id_a |-> Identify(response.a),
                    id_b |-> Identify(response.b)]
    /\ UNCHANGED <<backend, queue, StoreVars, req, exec, redelivered, Ghosts>>

TaskIdNext == ApplyTaskId

TaskIdSpec == TaskIdInit /\ [][TaskIdNext]_vars

----------------------------------------------------------------------------
(* Converter.__call__: the directory bound to /autotex; a string is a
   sequence of characters *)

\* os.path.split(path)[0]: what stands before the last '/', without
\* trailing slashes unless it is all slashes
DirName(path) ==
    LET slashes == {i \in DOMAIN path : path[i] = "/"}
        last == IF slashes = {} THEN 0
                ELSE CHOOSE i \in slashes : \A j \in slashes : j <= i
        head == SubSeq(path, 1, last)
        kept == {i \in DOMAIN head : head[i] # "/"}
    IN  IF kept = {} THEN head
        ELSE SubSeq(head, 1, CHOOSE i \in kept : \A j \in kept : j <= i)

\* the positions at which sep occurs in s
Occurrences(s, sep) ==
    {i \in 1..(Len(s) - Len(sep) + 1) : SubSeq(s, i, i + Len(sep) - 1) = sep}

\* s.split(sep, 1)[1]: what follows the first occurrence of sep; IndexError
\* when there is none
AfterFirst(s, sep) ==
    LET at == Occurrences(s, sep)
    IN  IF at = {} THEN [ok |-> FALSE, rest |-> <<>>]
        ELSE LET i == CHOOSE i \in at : \A j \in at : i <= j
             IN  [ok |-> TRUE, rest |-> SubSeq(s, i + Len(sep), Len(s))]

\* s.strip('/')
StripSlashes(s) ==
    LET kept == {i \in DOMAIN s : s[i] # "/"}
    IN  IF kept = {} THEN <<>>
        ELSE SubSeq(s, CHOOSE i \in kept : \A j \in kept : i <= j,
                       CHOOSE i \in kept : \A j \in kept : j <= i)

\* os.path.join(a, b)
OsPathJoin(a, b) ==
    IF b # <<>> /\ Head(b) = "/" THEN b
    ELSE IF a = <<>> \/ a[Len(a)] = "/" THEN a \o b
    ELSE a \o <<"/">> \o b

\* a runner that does not strip the leaf
BindSourceUnstripped(source_path, worker_source_root, dind_source_root) ==
    LET leaf == AfterFirst(DirName(source_path), worker_source_root)
    IN  IF ~leaf.ok THEN [ok |-> FALSE, dir |-> <<>>]
        ELSE [ok |-> TRUE, dir |-> OsPathJoin(dind_source_root, leaf.rest)]

\* dind_src_dir, the key of the volumes given to containers.run, for the
\* path of the fetched source
BindSource(source_path, worker_source_root, dind_source_root) ==
    LET leaf == AfterFirst(DirName(source_path), worker_source_root)
    IN  IF ~leaf.ok THEN [ok |-> FALSE, dir |-> <<>>]
        ELSE [ok |-> TRUE,
              dir |-> OsPathJoin(dind_source_root, StripSlashes(leaf.rest))]

\* values of WORKER_SOURCE_ROOT: '/w', '/w/' and '/a/w'
WorkerSourceRoots == {<<"/", "w">>, <<"/", "w", "/">>, <<"/", "a", "/", "w">>}

\* values of DIND_SOURCE_ROOT: '/d', '/d/' and '/w'
DindSourceRoots == {<<"/", "d">>, <<"/", "d", "/">>, <<"/", "w">>}

\* names mkdtemp gives the scratch directory: 't', 'tw', 'wt', 'w8'
Leaves == {<<"t">>, <<"t", "w">>, <<"w", "t">>, <<"w", "8">>}

\* names of the fetched source file: '5', 'w' and 'w.d'
SourceFileNames == {<<"5">>, <<"w">>, <<"w", ".", "d">>}

\* the runs drawn: the source was saved as root/leaf/name
BindCalls ==
    {[kind |-> "bind_call", worker_source_root |-> w, dind_source_root |-> d,
      leaf |-> l,
      source_path |-> OsPathJoin(OsPathJoin(w, l), n)] :
        w \in WorkerSourceRoots, d \in DindSourceRoots, l \in Leaves,
        n \in SourceFileNames}

BindInit == Fresh /\ response \in BindCalls

\* the runner computes the volume it binds to /autotex
ApplyBindSource ==
    /\ response.kind = "bind_call"
    /\ response' = [kind |-> "bind_answer", call |-> response,
                    bind |-> BindSource(response.source_path,
                                        response.worker_source_root,
                                        response.dind_source_root)]
    /\ UNCHANGED <<backend, queue, StoreVars, req, exec, redelivered, Ghosts>>

BindNext == ApplyBindSource

BindSpec == BindInit /\ [][BindNext]_vars

----------------------------------------------------------------------------
(* services.store: StoreSession.set_status and get_status on one bucket *)

MaxSets == 3

\* a member of an enumeration, as distinct from its value
Member(enum, value) == [enum |-> enum, value |-> value]

\* the triples whose status is set and read: one source, two checksums, two
\* formats
StoreTriples ==
    [source_id : {<<"5", "4">>}, checksum : {<<"a">>, <<"b">>},
     output_format : {<<"p", "d", "f">>, <<"p", "s">>}]

\* the status records set
StatusRecords ==
    {[source_id |-> t.source_id, checksum |-> t.checksum,
      output_format |-> Member("Format", t.output_format),
      task_id |-> GetTaskId(t.source_id, t.checksum, t.output_format),
      status |-> Member("Status", st)] :
        t \in StoreTriples, st \in {COMPLETED, FAILED}}

\* a key of set_status and get_status that leaves the checksum out
StatusKeyWithoutChecksum(source_id, checksum, output_format) ==
    source_id \o <<"/">> \o output_format \o <<"/", "status.json">>

\* the key of the status record of a triple: f'{_key}/status.json'
StatusKey(source_id, checksum, output_format) ==
    StoreKey(source_id, checksum, output_format) \o <<"/", "status.json">>

\* the key store puts the product under and retrieve reads:
\* f'{_key}/{source_id}.{ext}', the extension being the format's value
ProductKey(source_id, checksum, output_format) ==
    StoreKey(source_id, checksum, output_format)
        \o <<"/">> \o source_id \o <<".">> \o output_format

\* the key store_log puts the log under and retrieve_log reads
LogKey(source_id, checksum, output_format) ==
    ProductKey(source_id, checksum, output_format) \o <<".", "log">>

\* the keys of the bucket
BucketKeys ==
    UNION {{StatusKey(t.source_id, t.checksum, t.output_format),
            StatusKeyWithoutChecksum(t.source_id, t.checksum, t.output_format),
            ProductKey(t.source_id, t.checksum, t.output_format),
            LogKey(t.source_id, t.checksum, t.output_format)} :
                t \in StoreTriples}

\* no object under a key
NoObject == [kind |-> "NoSuchKey"]

\* the body set_status puts: json.dumps(status.to_dict()), the enumeration
\* members written as their values
ToDict(record) ==
    [kind |-> "json", source_id |-> record.source_id,
     checksum |-> record.checksum,
     output_format |-> record.output_format.value,
     task_id |-> record.task_id, status |-> record.status.value]

\* what get_status makes of a body: Format(...) and Status(...) look the
\* values up, ValueError when there is no such member
FromBody(body) ==
    IF body.output_format \notin Formats \/ body.status \notin Statuses
    THEN [kind |-> "ValueError"]
    ELSE [kind |-> "status",
          record |-> [source_id |-> body.source_id,
                      checksum |-> body.checksum,
                      output_format |-> Member("Format", body.output_format),
                      task_id |-> body.task_id,
                      status |-> Member("Status", body.status)]]

\* StoreSession.get_status on a bucket
StoreGetStatus(bucket, source_id, checksum, output_format) ==
    LET body == bucket[StatusKey(source_id, checksum, output_format)]
    IN  IF body = NoObject THEN [kind |-> "DoesNotExist"]
        ELSE FromBody(body)

\* a retrieve that hands out an empty product when there is no object
StoreRetrieveEmptyProduct(bucket, key) ==
    IF bucket[key] = NoObject THEN [kind |-> "product", stream |-> ""]
    ELSE [kind |-> "product", stream |-> bucket[key].content]

\* StoreSession.retrieve and retrieve_log on a bucket, `key` being the key
\* the method builds: get_object, DoesNotExist on NoSuchKey, else the body
\* as the product's stream
StoreRetrieve(bucket, key) ==
    IF bucket[key] = NoObject THEN [kind |-> "DoesNotExist"]
    ELSE [kind |-> "product", stream |-> bucket[key].content]

\* nothing read yet
NotAsked == [kind |-> "none"]

\* the bucket is empty; `puts` remembers the keys put so far, `last` for each
\* triple the record set last, `got` what the last read `op` returned for
\* the triple `asked`
StoreInit ==
    /\ Fresh
    /\ response = [kind |-> "store",
                   bucket |-> [k \in BucketKeys |-> NoObject],
                   last |-> [t \in StoreTriples |-> NotAsked],
                   puts |-> {}, sets |-> 0,
                   op |-> "none", asked |-> NotAsked, got |-> NotAsked]

\* the store after one writing call: `blobs` are the keys written with their
\* content before the status record of `record` is put
AfterPut(blobs, record) ==
    LET key == StatusKey(record.source_id, record.checksum,
                         record.output_format.value)
        triple == [source_id |-> record.source_id,
                   checksum |-> record.checksum,
                   output_format |-> record.output_format.value]
    IN  [response EXCEPT
            !.bucket = [k \in BucketKeys |->
                           IF k = key THEN ToDict(record)
                           ELSE IF k \in DOMAIN blobs
                                THEN [kind |-> "blob", content |-> blobs[k]]
                                ELSE @[k]],
            !.last[triple] = [kind |-> "status", record |-> record],
            !.puts = @ \cup {key} \cup DOMAIN blobs,
            !.sets = @ + 1,
            !.op = "none", !.asked = NotAsked, !.got = NotAsked]

\* set_status(status): put_object under the key of the record's triple
StoreSetStatus(record) ==
    /\ response.kind = "store"
    /\ response.sets < MaxSets
    /\ response' = AfterPut(<<>>, record)
    /\ UNCHANGED <<backend, queue, StoreVars, req, exec, redelivered, Ghosts>>

\* store(product): put_object of the product's content, then set_status
StoreStore(record) ==
    /\ response.kind = "store"
    /\ response.sets < MaxSets
    /\ LET key == ProductKey(record.source_id, record.checksum,
                             record.output_format.value)
       IN  response' = AfterPut(key :> "product", record)
    /\ UNCHANGED <<backend, queue, StoreVars, req, exec, redelivered, Ghosts>>

\* store_log(product): put_object of the log's content, then set_status
StoreStoreLog(record) ==
    /\ response.kind = "store"
    /\ response.sets < MaxSets
    /\ LET key == LogKey(record.source_id, record.checksum,
                         record.output_format.value)
       IN  response' = AfterPut(key :> "log", record)
    /\ UNCHANGED <<backend, queue, StoreVars, req, exec, redelivered, Ghosts>>

\* get_status(source_id, checksum, output_format)
StoreReadStatus(triple) ==
    /\ response.kind = "store"
    /\ response' = [response EXCEPT
                       !.op = "get_status",
                       !.asked = triple,
                       !.got = StoreGetStatus(response.bucket,
                                   triple.source_id, triple.checksum,
                                   triple.output_format)]
    /\ UNCHANGED <<backend, queue, StoreVars, req, exec, redelivered, Ghosts>>

\* retrieve(source_id, checksum, output_format) and retrieve_log(...)
StoreReadBlob(op, triple) ==
    /\ response.kind = "store"
    /\ LET key == IF op = "retrieve"
                  THEN ProductKey(triple.source_id, triple.checksum,
                                  triple.output_format)
                  ELSE LogKey(triple.source_id, triple.checksum,
                              triple.output_format)
       IN  response' = [response EXCEPT
                           !.op = op,
                           !.asked = triple,
                           !.got = StoreRetrieve(response.bucket, key)]
    /\ UNCHANGED <<backend, queue, StoreVars, req, exec, redelivered, Ghosts>>

\* controllers.get_product and controllers.get_log for a well-formed request
\* of `caller` when get_task reports `found`, the store being this bucket
StoreReadController(op, triple, found, caller) ==
    /\ response.kind = "store"
    /\ LET product == StoreRetrieve(response.bucket,
                          ProductKey(triple.source_id, triple.checksum,
                                     triple.output_format))
           log == StoreRetrieve(response.bucket,
                      LogKey(triple.source_id, triple.checksum,
                             triple.output_format))
           code == IF op = "get_product"
                   THEN GetProductCode(found, caller, TRUE,
                                       product.kind = "product")
                   ELSE GetLogCode(found, caller, TRUE, log.kind = "product")
       IN  response' = [response EXCEPT
                           !.op = op,
                           !.asked = triple,
                           !.got = [kind |-> "response", found |-> found,
                                    caller |-> caller, code |-> code]]
    /\ UNCHANGED <<backend, queue, StoreVars, req, exec, redelivered, Ghosts>>

StoreNext ==
    \/ \E record \in StatusRecords : StoreSetStatus(record)
    \/ \E record \in StatusRecords : StoreStore(record)
    \/ \E record \in StatusRecords : StoreStoreLog(record)
    \/ \E triple \in StoreTriples : StoreReadStatus(triple)
    \/ \E op \in {"retrieve", "retrieve_log"}, triple \in StoreTriples :
          StoreReadBlob(op, triple)
    \* get_task reports a task that failed for want of a source or one that
    \* completed; the caller is its owner or a stranger, neither scoped
    \/ \E op \in {"get_product", "get_log"}, triple \in StoreTriples,
          result \in {<<FAILED, R_MISSING>>, <<COMPLETED, R_NONE>>},
          owner \in OwnerValues,
          caller \in {c \in Callers : ~c.scoped /\ c.user # PyNone} :
          StoreReadController(op, triple,
              [kind |-> "Task", status |-> result[1], reason |-> result[2],
               owner |-> owner], caller)

StoreSpec == StoreInit /\ [][StoreNext]_vars

----------------------------------------------------------------------------
(* Converter.__call__ once the container has been started: names are
   sequences of characters, paths sequences of names below the scratch
   directory *)

\* the first name of the listing that ends with the format's extension
\* alone, without the dot
FindOutputWithoutDot(cache, ext) ==
    LET EndsWith(name) ==
            /\ Len(name) >= Len(ext)
            /\ SubSeq(name, Len(name) - Len(ext) + 1, Len(name)) = ext
        hits == {i \in DOMAIN cache.listing : EndsWith(cache.listing[i])}
    IN  IF ~cache.exists \/ hits = {} THEN [kind |-> "None"]
        ELSE [kind |-> "path",
              path |-> <<"tex_cache",
                         cache.listing[CHOOSE i \in hits :
                                           \A j \in hits : i <= j]>>]

\* the artifact: the first name os.listdir(cache) gives that ends with
\* f'.{ext}', joined to the cache directory; None if the cache directory is
\* absent or has no such name
FindOutput(cache, ext) ==
    LET suffix == <<".">> \o ext
        EndsWith(name) ==
            /\ Len(name) >= Len(suffix)
            /\ SubSeq(name, Len(name) - Len(suffix) + 1, Len(name)) = suffix
        hits == {i \in DOMAIN cache.listing : EndsWith(cache.listing[i])}
    IN  IF ~cache.exists \/ hits = {} THEN [kind |-> "None"]
        ELSE [kind |-> "path",
              path |-> <<"tex_cache",
                         cache.listing[CHOOSE i \in hits :
                                           \A j \in hits : i <= j]>>]

\* a fallback that is taken only when there is no log file
LogFallbackOnlyWhenMissing(logs, captured) ==
    IF ~logs.file
    THEN [dir |-> TRUE, file |-> TRUE, content |-> captured]
    ELSE logs

\* the log fallback: when tex_logs/autotex.log is missing or of size 0, the
\* directory is made if need be and the container's output written to the
\* file; `logs` tells whether tex_logs and the file exist and what the file
\* holds
LogFallback(logs, captured) ==
    IF ~logs.file \/ Len(logs.content) = 0
    THEN [dir |-> TRUE, file |-> TRUE, content |-> captured]
    ELSE logs

\* Converter.__call__ from containers.run on: APIError becomes RuntimeError,
\* ContainerError leaves its stderr as the captured output, any other
\* exception meets the unbound name ImageNotFound (NameError); then the
\* artifact is looked for and the log settled
Runner(call) ==
    IF call.container \in {"api_error", "other_error"}
    THEN [raised |-> IF call.container = "api_error" THEN "RuntimeError"
                     ELSE "NameError",
          out |-> [kind |-> "None"], log_path |-> <<>>, logs |-> call.logs]
    ELSE [raised |-> "None",
          out |-> FindOutput(call.cache, call.ext),
          log_path |-> <<"tex_logs", "autotex.log">>,
          logs |-> LogFallback(call.logs, call.captured)]

\* the runs drawn: how the container ended and what it printed, what the
\* converter left in tex_cache (absent, or a listing of up to two names in
\* either order) and in tex_logs, and the format asked for
RunnerInit ==
    /\ Fresh
    /\ LET names == {<<"f", ".", "p", "d", "f">>, <<"f", ".", "p", "s">>,
                     <<"f", "p", "d", "f">>, <<".", "p", "d", "f">>,
                     <<"f", ".", "p", "d", "f", ".", "l">>}
           listings == {<<>>} \cup {<<n>> : n \in names}
                          \cup {l \in names \X names : l[1] # l[2]}
       IN  response \in
             {[kind |-> "runner_call", container |-> c, captured |-> cap,
               cache |-> cache, logs |-> logs, ext |-> ext] :
                c \in {"returns", "container_error", "api_error",
                       "other_error"},
                cap \in {<<>>, <<"o", "u", "t">>},
                cache \in {[exists |-> FALSE, listing |-> <<>>]}
                             \cup {[exists |-> TRUE, listing |-> l] :
                                      l \in listings},
                logs \in {[dir |-> FALSE, file |-> FALSE, content |-> <<>>],
                          [dir |-> TRUE, file |-> FALSE, content |-> <<>>],
                          [dir |-> TRUE, file |-> TRUE, content |-> <<>>],
                          [dir |-> TRUE, file |-> TRUE,
                           content |-> <<"t", "e", "x">>]},
                ext \in {<<"p", "d", "f">>, <<"p", "s">>}}

\* one call of the converter
ApplyRunner ==
    /\ response.kind = "runner_call"
    /\ response' = [kind |-> "runner_answer", call |-> response,
                    result |-> Runner(response)]
    /\ UNCHANGED <<backend, queue, StoreVars, req, exec, redelivered, Ghosts>>

RunnerSpec == RunnerInit /\ [][ApplyRunner]_vars

----------------------------------------------------------------------------
(* factory.create_app and factory.wait_for *)

MaxPolls == 3

\* the count of calls of is_available, kept up to MaxPolls
Polled(n) == IF n < MaxPolls THEN n + 1 ELSE n

\* create_app is about to read WAIT_FOR_SERVICES; the file manager, the
\* broker and a worker are each up or down
WaitInit ==
    /\ Fresh
    /\ response \in
          [kind : {"startup"}, wait : BOOLEAN, pc : {"start"},
           fm_up : BOOLEAN, broker_up : BOOLEAN, worker_up : BOOLEAN,
           fm_polls : {0}, queue_polls : {0},
           fm_true : {FALSE}, queue_true : {FALSE}, awaited : {FALSE}]

\* a service comes up or goes down
ServiceChange ==
    /\ response.kind = "startup"
    /\ \/ response' = [response EXCEPT !.fm_up = ~@]
       \/ response' = [response EXCEPT !.broker_up = ~@]
       \/ response' = [response EXCEPT !.worker_up = ~@]
    /\ UNCHANGED <<backend, queue, StoreVars, req, exec, redelivered, Ghosts>>

\* create_app up to its first wait_for: without WAIT_FOR_SERVICES it
\* returns; with it, it sleeps, initializes the store (taken to return) and
\* starts to wait for the file manager
CreateAppBegin ==
    /\ response.kind = "startup" /\ response.pc = "start"
    /\ response' = [response EXCEPT
                       !.pc = IF response.wait THEN "wait_fm"
                              ELSE "returned"]
    /\ UNCHANGED <<backend, queue, StoreVars, req, exec, redelivered, Ghosts>>

\* a wait_for that returns after its first call of is_available
PollFileManagerOnce ==
    /\ response.kind = "startup" /\ response.pc = "wait_fm"
    /\ response' = [response EXCEPT
                       !.fm_polls = Polled(@),
                       !.fm_true = @ \/ response.fm_up,
                       !.pc = "wait_queue"]
    /\ UNCHANGED <<backend, queue, StoreVars, req, exec, redelivered, Ghosts>>

\* one round of wait_for(filemanager_service): is_available() answers; on
\* true wait_for returns, on false it sleeps and asks again
PollFileManager ==
    /\ response.kind = "startup" /\ response.pc = "wait_fm"
    /\ response' = [response EXCEPT
                       !.fm_polls = Polled(@),
                       !.fm_true = @ \/ response.fm_up,
                       !.pc = IF response.fm_up THEN "wait_queue"
                              ELSE "wait_fm"]
    /\ UNCHANGED <<backend, queue, StoreVars, req, exec, redelivered, Ghosts>>

\* one round of wait_for(compiler, await_result=True): compiler.is_available
\* publishes do_nothing (False if apply_async raises) and awaits its result
\* (False if task.get raises); on true wait_for and create_app return
PollQueue ==
    /\ response.kind = "startup" /\ response.pc = "wait_queue"
    /\ LET answer == response.broker_up /\ response.worker_up
       IN  response' = [response EXCEPT
                           !.queue_polls = Polled(@),
                           !.queue_true = @ \/ answer,
                           !.awaited = @ \/ answer,
                           !.pc = IF answer THEN "returned"
                                  ELSE "wait_queue"]
    /\ UNCHANGED <<backend, queue, StoreVars, req, exec, redelivered, Ghosts>>

\* the steps of create_app are taken as long as they can be: the loop of
\* wait_for comes back from every sleep
WaitSpec ==
    /\ WaitInit
    /\ [][ServiceChange \/ CreateAppBegin \/ PollFileManager
             \/ PollQueue]_vars
    /\ WF_vars(CreateAppBegin) /\ WF_vars(PollFileManager)
    /\ WF_vars(PollQueue)

----------------------------------------------------------------------------
(* Properties *)

\* what get_task reports for task id t in this state
Reported(t) == GetTask(backend[t])

\* get_task reports a terminal status for t in this state
ReportsTerminal(t) == Terminal(backend[t])

\* no request is between its lookup and its answer, no job is queued and no
\* worker is running
Quiescent ==
    /\ \A r \in Reqs : req[r].pc \in {"idle", "done"}
    /\ queue = <<>>
    /\ \A w \in Workers : exec[w].pc = "idle"

\* C1: when no compile request for a triple used force, however the steps of
\* the requests interleave, at most one job is enqueued for its task id: a
\* second request finds the first's task and does not enqueue.
C1_OneJobPerTask ==
    \A t \in Tasks : ~forced[t] => enqueued[t] <= 1

\* C2: once start_compilation succeeded for a task id and the worker has taken
\* every queued job and ended every run, get_task no longer reports the task
\* in_progress, whatever the order of the publish, the SENT marking and the
\* worker's store of the result was.
C2_StartedTaskLeavesInProgress ==
    \A t \in Tasks :
        (enqueued[t] > 0 /\ Quiescent) =>
            ~(Reported(t).kind = "Task" /\ Reported(t).status = IN_PROGRESS)

\* C3: while no compile request used force, a terminal status that get_task
\* reports for a task id stays: the next state reports the same status.
C3_TerminalStatusStays ==
    [][\A t \in Tasks :
          (ReportsTerminal(t) /\ ~forced'[t]) =>
              /\ GetTask(backend'[t]).kind = "Task"
              /\ GetTask(backend'[t]).status = Reported(t).status]_vars

\* C4: an execution of a job delivered again after a terminal result was
\* published leaves the reported Task, the status record, the artifact and the
\* log of the task id as they were.
C4_RedeliveryChangesNothing ==
    [][\A w \in Workers :
          (exec[w].after_terminal /\ exec'[w] # exec[w]) =>
              LET t == exec[w].task
              IN  /\ GetTask(backend'[t]) = Reported(t)
                  /\ st_status'[t] = st_status[t]
                  /\ st_artifact'[t] = st_artifact[t]
                  /\ st_log'[t] = st_log[t]]_vars

OwnerOrScoped ==
    \/ response.caller.scoped
    \/ response.caller.user = response.found.owner

\* C6: a Task that do_compile is about to return or that get_task reports
\* with status completed has reason none and its artifact is in the store;
\* get_product then answers the owner or a scoped caller 200 with the
\* Content-Type of the format.
C6_CompletedHasArtifact ==
    /\ \A t \in Tasks :
          (Reported(t).kind = "Task" /\ Reported(t).status = COMPLETED) =>
              Reported(t).reason = R_NONE /\ st_artifact[t]
    /\ \A w \in Workers :
          (exec[w].pc = "return" /\ exec[w].status = COMPLETED) =>
              exec[w].reason = R_NONE /\ st_artifact[exec[w].task]
    /\ (/\ response.kind = "get_product"
        /\ response.valid
        /\ response.found.kind = "Task"
        /\ response.found.status = COMPLETED
        /\ OwnerOrScoped) =>
          /\ response.code = 200
          /\ response.content_type = "application/pdf"

\* get_product answered 200 for a completed task to the scoped caller who is
\* not its owner
C6_Witness ==
    /\ response.kind = "get_product"
    /\ response.code = 200
    /\ response.found.status = COMPLETED
    /\ response.caller = [user |-> PyStr("123"), scoped |-> TRUE]
    /\ st_artifact[response.task]

\* C7: a failed Task that do_compile is about to return or that get_task
\* reports has a reason other than none, and get_task reports such a Task for
\* a row in the queue's FAILURE state.
C7_FailedHasReason ==
    /\ \A w \in Workers :
          (exec[w].pc = "return" /\ exec[w].status = FAILED) =>
              exec[w].reason # R_NONE
    /\ \A t \in Tasks :
          /\ (Reported(t).kind = "Task" /\ Reported(t).status = FAILED) =>
                Reported(t).reason # R_NONE
          /\ backend[t].status = "FAILURE" =>
                /\ Reported(t).kind = "Task"
                /\ Reported(t).status = FAILED
                /\ Reported(t).reason # R_NONE

\* C8: while get_task reports a task failed, no artifact is in the store
\* under its key.
C8_FailedHasNoArtifact ==
    \A t \in Tasks :
        (Reported(t).kind = "Task" /\ Reported(t).status = FAILED) =>
            ~st_artifact[t]

\* C9: once the backend holds a row for a task dispatched with an owner, a
\* well-formed read by a caller who is neither that owner nor scoped for the
\* task id is answered 403.
C9_NonOwnerForbidden ==
    (/\ response.kind \in {"get_status", "get_product", "get_log"}
     /\ response.valid
     /\ backend[response.task].status # "PENDING"
     /\ Truthy(src_owner)
     /\ ~response.caller.scoped
     /\ response.caller.user # src_owner) =>
        response.code = 403

\* C10: the authorizer answers true for a Task without owner; for a Task with
\* an owner it answers true exactly when the session holds the scope
\* qualified by the task id or its user's id is the owner's.
C10_AuthorizerDecides ==
    response.kind = "authorizer_answer" =>
        LET o == response.task.owner
            c == response.caller
        IN  response.answer =
               IF o \in {PyNone, PyStr("")} THEN TRUE
               ELSE c.scoped \/ (c.user # PyNone /\ c.user.repr = o.repr)

\* the authorizer answered true to an unscoped session whose user is the
\* owner, the one id held as a str and the other as an int
C10_Witness ==
    /\ response.kind = "authorizer_answer"
    /\ response.task.owner = PyInt("84843")
    /\ response.caller = [user |-> PyStr("84843"), scoped |-> FALSE]
    /\ response.answer

\* compile requests for task id t that were answered 202
Accepted(t) ==
    enqueued[t] - Cardinality({r \in Reqs : req[r].pc = "mark_sent"
                                            /\ req[r].task = t})

\* the caller of the response is the owner the task was dispatched with, or
\* holds the scope qualified by the task id
DispatchOwnerOrScoped ==
    response.caller.scoped \/ response.caller.user = src_owner

\* C11: after a compile request for a triple was answered 202, a compile
\* request without force for the triple, by the owner or a scoped caller, is
\* answered 303 with the Location the 202 carried.
C11_SecondCallRedirects ==
    (/\ response.kind = "compile"
     /\ response.valid /\ ~response.force
     /\ Accepted(response.task) > 0
     /\ DispatchOwnerOrScoped) =>
        /\ response.code = 303
        /\ response.location = StartResponse(response.task, 202).location

\* C12: a compile request without force for a triple that has a task, by a
\* caller who is neither the owner the task was dispatched with nor scoped
\* for the task id, is answered 403.
C12_UnauthorizedCompileRefused ==
    (/\ response.kind = "compile"
     /\ response.valid /\ ~response.force
     /\ Accepted(response.task) > 0
     /\ Truthy(src_owner)
     /\ ~DispatchOwnerOrScoped) =>
        response.code = 403

\* a job of a force request for a triple that had a task is queued for its
\* first delivery or running
RecompileUnfinished(t) ==
    \/ \E i \in DOMAIN queue :
          queue[i].task = t /\ queue[i].recompile /\ ~queue[i].again
    \/ \E w \in Workers :
          exec[w].pc # "idle" /\ exec[w].task = t /\ exec[w].recompile

\* C13: once a force request for a triple that had a task was answered 202,
\* get_task reports the task in_progress as long as the job of that request
\* has not finished.
C13_RecompileKeepsInProgress ==
    \A t \in Tasks :
        (/\ redelivered = 0
         /\ RecompileUnfinished(t)
         /\ \A r \in Reqs : ~(req[r].pc = "mark_sent" /\ req[r].task = t)) =>
            /\ Reported(t).kind = "Task"
            /\ Reported(t).status = IN_PROGRESS

\* C14: when apply_async raises, start_compilation leaves the result
\* backend, the queue and the store as they were, so get_task answers as
\* before, and the request is answered 500.
C14_FailedEnqueueWritesNothing ==
    [][\A r \in Reqs :
          (req[r].pc = "publish" /\ req'[r].pc = "done") =>
              /\ response' = StartResponse(req[r].task, 500)
              /\ UNCHANGED <<backend, queue, StoreVars, enqueued>>]_vars

\* the only compile request so far was answered 500, and get_task still
\* raises NoSuchTask
C14_Witness ==
    /\ response.kind = "start" /\ response.code = 500
    /\ Reported(response.task).kind = "NoSuchTask"
    /\ queue = <<>>
    /\ enqueued[response.task] = 0

C16_MarkerBeforeDelivery ==
    \A r \in Reqs :
        (req[r].pc = "mark_sent" /\ enqueued[req[r].task] = 1) =>
            /\ \E i \in DOMAIN queue : queue[i].task = req[r].task
            /\ backend[req[r].task] = MetaPending

\* C17: get_task raises NoSuchTask for PENDING; gives an in_progress Task
\* for SENT, STARTED and RETRY; a failed Task for FAILURE; for SUCCESS the
\* status and reason of the stored result, and completed with reason none
\* when the stored result carries no status.
C17_GetTaskMapping ==
    response.kind = "get_task_answer" =>
        LET row == response.row
            answer == response.answer
            info == row.result
        IN CASE row.status = "PENDING" -> answer.kind = "NoSuchTask"
             [] row.status \in {"SENT", "STARTED", "RETRY"} ->
                    answer.kind = "Task" /\ answer.status = IN_PROGRESS
             [] row.status = "FAILURE" ->
                    answer.kind = "Task" /\ answer.status = FAILED
             [] row.status = "SUCCESS" /\ "status" \in DOMAIN info ->
                    /\ answer.kind = "Task"
                    /\ answer.status = info.status
                    /\ answer.reason = info.reason
             [] OTHER ->
                    /\ answer.kind = "Task"
                    /\ answer.status = COMPLETED
                    /\ answer.reason = R_NONE

\* C18: a read controller answers 400 to a malformed request whatever the
\* backend holds, 404 to a well-formed request for an unknown task whoever
\* asks, and 403 to a well-formed request for a task the authorizer refuses
\* whatever the store holds; it answers 400 to malformed requests only and
\* 403 to refused callers only.
C18_ReadDecisionOrder ==
    response.kind \in {"get_status", "get_product", "get_log"} =>
        LET refused == /\ response.found.kind = "Task"
                       /\ ~Authorizer(response.found, response.caller)
        IN /\ response.code = 400 <=> ~response.valid
           /\ (response.valid /\ response.found.kind = "NoSuchTask") =>
                 response.code = 404
           /\ response.code = 403 <=> (response.valid /\ refused)

\* get_product answered 403 for a failed task that has no artifact in the
\* store
C18_Witness ==
    /\ response.kind = "get_product"
    /\ response.code = 403
    /\ response.found.status = FAILED
    /\ ~st_artifact[response.task]

\* C19: no execution of do_compile raises: no worker is left with an
\* exception to store, and no row of the result backend is in state FAILURE.
C19_DoCompileAlwaysReturns ==
    /\ \A w \in Workers : exec[w].pc # "raise"
    /\ \A t \in Tasks : backend[t].status # "FAILURE"

\* C20: when the source fetch raises RequestUnauthorized or RequestForbidden
\* do_compile returns failed with auth_error, for ConnectionFailed failed
\* with network_error, for NotFound failed with missing_source; in each case
\* the converter is not invoked and no artifact is put in the store.
C20_FetchFailureClassified ==
    response.kind = "do_compile_answer" =>
        LET fetch == response.call.fetch
            task == response.task
            gives(reason) == /\ task.status = FAILED
                             /\ task.reason = reason
                             /\ ~task.invoked
                             /\ ~task.artifact
        IN /\ fetch \in {"unauthorized", "forbidden"} => gives(R_AUTHORIZATION)
           /\ fetch = "connection_failed" => gives(R_NETWORK)
           /\ fetch = "not_found" => gives(R_MISSING)

\* the fetch raised RequestForbidden where every later step would have
\* succeeded, and do_compile returned failed with auth_error
C20_Witness ==
    /\ response.kind = "do_compile_answer"
    /\ response.call = [kind |-> "do_compile_call", fetch |-> "forbidden",
                        match |-> TRUE, probe |-> "true",
                        conv |-> "artifact", store |-> "ok",
                        store_log |-> "ok", rmtree |-> "ok"]
    /\ response.task.status = FAILED
    /\ response.task.reason = R_AUTHORIZATION

\* the character of the URL-safe base64 alphabet for value v
UrlsafeChar(v) ==
    IF v < 26 THEN 65 + v
    ELSE IF v < 52 THEN 71 + v
    ELSE IF v < 62 THEN v - 4
    ELSE IF v = 62 THEN 45
    ELSE 95

\* the UTF-8 bytes of a text
RECURSIVE Utf8Encode(_)
Utf8Encode(text) ==
    IF text = <<>> THEN <<>>
    ELSE LET p == Head(text)
             first == IF p < 128 THEN <<p>>
                      ELSE IF p < 2048
                           THEN <<192 + (p \div 64), 128 + (p % 64)>>
                      ELSE <<224 + (p \div 4096), 128 + ((p \div 64) % 64),
                             128 + (p % 64)>>
         IN  first \o Utf8Encode(Tail(text))

\* base64.urlsafe_b64encode of bytes, with padding
RECURSIVE UrlsafeB64Encode(_)
UrlsafeB64Encode(b) ==
    IF b = <<>> THEN <<>>
    ELSE LET v(k) == IF k <= Len(b) THEN b[k] ELSE 0
             x == v(1) * 65536 + v(2) * 256 + v(3)
             c1 == UrlsafeChar(x \div 262144)
             c2 == UrlsafeChar((x \div 4096) % 64)
             c3 == IF Len(b) >= 2 THEN UrlsafeChar((x \div 64) % 64) ELSE 61
             c4 == IF Len(b) >= 3 THEN UrlsafeChar(x % 64) ELSE 61
         IN  <<c1, c2, c3, c4>>
                 \o UrlsafeB64Encode(SubSeq(b, 4, Len(b)))

\* C21: with verification enabled do_compile goes on to the converter when
\* the etag equals the requested checksum or the requested checksum is the
\* URL-safe base64 encoding of the etag, and otherwise returns failed with
\* missing_source without invoking the converter; with verification disabled
\* it always goes on.
C21_ChecksumAcceptance ==
    response.kind = "checksum_answer" =>
        LET call == response.call
            task == response.task
            accept == \/ ~call.verify
                      \/ call.etag = call.expected
                      \/ UrlsafeB64Encode(Utf8Encode(call.etag))
                            = call.expected
        IN  IF accept THEN task.invoked
            ELSE /\ task.status = FAILED
                 /\ task.reason = R_MISSING
                 /\ ~task.invoked

\* C22: when the source was fetched and accepted and the storing step does
\* not raise, do_compile returns failed with docker if the probe reports the
\* converter unavailable; otherwise failed with corrupted_source if the
\* runner raises CorruptedSource, failed with docker if it raises another
\* RuntimeError, failed with compilation_errors if it returns no artifact
\* path; and completed, with reason none, exactly when the runner returns an
\* artifact path.
C22_CompileStepClassified ==
    (/\ response.kind = "do_compile_answer"
     /\ response.call.fetch = "ok" /\ response.call.match
     /\ response.call.store = "ok" /\ response.call.store_log = "ok") =>
        LET call == response.call
            task == response.task
            gives(status, reason) == /\ task.status = status
                                     /\ task.reason = reason
            ran == call.probe \in {"true", "client_error"}
        IN /\ call.probe = "false" => gives(FAILED, R_DOCKER)
           /\ (ran /\ call.conv = "corrupted") => gives(FAILED, R_CORRUPTED)
           /\ (ran /\ call.conv = "runtime_error") => gives(FAILED, R_DOCKER)
           /\ (ran /\ call.conv = "no_artifact") =>
                 gives(FAILED, R_COMPILATION)
           /\ (ran /\ call.conv = "artifact") => gives(COMPLETED, R_NONE)
           /\ task.status = COMPLETED => call.conv = "artifact"

\* the runner returned a log and no artifact path, and do_compile returned
\* failed with compilation_errors
C22_Witness ==
    /\ response.kind = "do_compile_answer"
    /\ response.call = [kind |-> "do_compile_call", fetch |-> "ok",
                        match |-> TRUE, probe |-> "true",
                        conv |-> "no_artifact", store |-> "ok",
                        store_log |-> "ok", rmtree |-> "ok"]
    /\ response.task.status = FAILED
    /\ response.task.reason = R_COMPILATION

\* a store call of the storing step raised in the execution of the response
StoringRaised ==
    LET call == response.call
        d == Disposition(call.fetch, call.match, call.probe, call.conv)
    IN  \/ d.out /\ call.store # "ok"
        \/ (~d.out \/ call.store = "ok") /\ d.log /\ call.store_log # "ok"

\* C23: when a store call of the storing step raises, do_compile returns
\* failed with reason storage and description 'Failed to store result', and
\* tries to write that status record to the store.
C23_StorageFailureRecorded ==
    (response.kind = "do_compile_answer" /\ StoringRaised) =>
        /\ response.task.status = FAILED
        /\ response.task.reason = R_STORAGE
        /\ response.task.description = "Failed to store result"
        /\ [status |-> FAILED, reason |-> R_STORAGE]
               \in response.task.status_writes

\* C24: whenever the converter was invoked and no store call raised, the
\* execution has put a log blob in the store.
C24_InvokedLeavesLog ==
    (/\ response.kind = "do_compile_answer"
     /\ response.task.invoked
     /\ ~StoringRaised) =>
        response.task.log

Inside(file, dir) ==
    Len(file) > Len(dir) /\ SubSeq(file, 1, Len(dir)) = dir

\* C26: when the content-disposition filename, joined to save_to and
\* normalized, lies outside save_to, get_source_content raises and writes no
\* file.
C26_EscapingFilenameRejected ==
    (/\ response.kind = "source_answer"
     /\ response.call.transport = "response" /\ response.call.code = 200
     /\ ~Inside(Resolve(JoinPath(SaveTo,
                                 FilenameOf(response.call.header, "54")),
                        <<>>), SaveTo)) =>
        /\ response.result.raised # None
        /\ response.result.written = <<>>

\* C28: the source client raises RequestUnauthorized for 401,
\* RequestForbidden for 403, NotFound for 404, Oversize for 413, BadRequest
\* for any other 4xx code, RequestFailed for 500 and above and for a code
\* below 400 other than the expected one, SecurityException for a TLS
\* failure and ConnectionFailed for a connection failure; it returns the
\* response for the expected code only.
C28_ResponseClassified ==
    response.kind = "source_answer" =>
        LET call == response.call
            code == call.code
            raised == response.result.raised
        IN  IF call.transport = "ssl_error" THEN raised = "SecurityException"
            ELSE IF call.transport = "connection_error"
                 THEN raised = "ConnectionFailed"
            ELSE /\ code = 401 => raised = "RequestUnauthorized"
                 /\ code = 403 => raised = "RequestForbidden"
                 /\ code = 404 => raised = "NotFound"
                 /\ code = 413 => raised = "Oversize"
                 /\ (code \in 400..499 /\ code \notin {401, 403, 404, 413}) =>
                       raised = "BadRequest"
                 /\ code >= 500 => raised = "RequestFailed"
                 /\ (code < 400 /\ code # 200) => raised = "RequestFailed"
                 /\ raised = None <=> code = 200

\* C27: two validated triples that get the same task id are the same
\* triple, and the task id of a validated triple is the key prefix the store
\* computes for it.
C27_TaskIdInjective ==
    (/\ response.kind = "task_id_answer"
     /\ response.id_a.valid /\ response.id_b.valid) =>
        /\ response.id_a.task_id = response.id_b.task_id =>
              response.a = response.b
        /\ response.id_a.key = response.id_a.task_id
        /\ response.id_b.key = response.id_b.task_id

\* two validated triples whose characters, read without the separators, are
\* the same got different task ids
C27_Witness ==
    /\ response.kind = "task_id_answer"
    /\ response.id_a.valid /\ response.id_b.valid
    /\ response.a = [source_id |-> <<"a">>, checksum |-> <<"a", "a">>,
                     output_format |-> <<"p", "d", "f">>]
    /\ response.b = [source_id |-> <<"a", "a">>, checksum |-> <<"a">>,
                     output_format |-> <<"p", "d", "f">>]
    /\ response.id_a.task_id # response.id_b.task_id

\* C29: for a source saved in WORKER_SOURCE_ROOT/leaf the runner binds
\* DIND_SOURCE_ROOT/leaf, with one slash between the root and the unchanged
\* leaf, to /autotex.
C29_BindKeepsLeaf ==
    response.kind = "bind_answer" =>
        LET root == response.call.dind_source_root
            bare == IF root[Len(root)] = "/"
                    THEN SubSeq(root, 1, Len(root) - 1) ELSE root
        IN  /\ response.bind.ok
            /\ response.bind.dir = bare \o <<"/">> \o response.call.leaf

\* the runner bound /d/wt for the source /a/w/wt/w.d, whose leaf and file
\* name contain the name of the root
C29_Witness ==
    /\ response.kind = "bind_answer"
    /\ response.call.source_path
          = <<"/", "a", "/", "w", "/", "w", "t", "/", "w", ".", "d">>
    /\ response.bind.ok
    /\ response.bind.dir = <<"/", "d", "/", "w", "t">>

KeyRead(op, triple) ==
    IF op = "get_status"
    THEN StatusKey(triple.source_id, triple.checksum, triple.output_format)
    ELSE IF op \in {"retrieve", "get_product"}
    THEN ProductKey(triple.source_id, triple.checksum, triple.output_format)
    ELSE LogKey(triple.source_id, triple.checksum, triple.output_format)

\* C31: get_status, retrieve and retrieve_log for a triple whose key was never
\* put raise DoesNotExist; get_product and get_log answer 404 to a caller the
\* authorizer accepts when the task exists and its blob was never put.
C31_MissingBlobNotFound ==
    (response.kind = "store" /\ response.op # "none"
        /\ KeyRead(response.op, response.asked) \notin response.puts) =>
        IF response.op \in {"get_status", "retrieve", "retrieve_log"}
        THEN response.got.kind = "DoesNotExist"
        ELSE Authorizer(response.got.found, response.got.caller) =>
                response.got.code = 404

\* after a status record and a log were written for a triple, get_product of
\* the owner answered 404 for its task, which failed with missing_source
C31_Witness ==
    /\ response.kind = "store"
    /\ response.op = "get_product"
    /\ response.got.found.status = FAILED
    /\ response.got.found.reason = R_MISSING
    /\ response.got.caller.user = response.got.found.owner
    /\ response.got.code = 404
    /\ LogKey(response.asked.source_id, response.asked.checksum,
              response.asked.output_format) \in response.puts
    /\ ProductKey(response.asked.source_id, response.asked.checksum,
                  response.asked.output_format) \notin response.puts

\* C32: after an execution of do_compile, whatever it produced, the status
\* record the execution wrote to the store is the Task it returns.
C32_StoreRecordIsReturnedTask ==
    response.kind = "do_compile_answer" =>
        response.task.status_writes
            = {[status |-> response.task.status,
                reason |-> response.task.reason]}

\* C33: a compile request that gets as far as the owner lookup is answered
\* 403 when the lookup fails with RequestForbidden or RequestUnauthorized and
\* 404 when it fails otherwise, and in both cases nothing is enqueued or
\* written.
C33_OwnerLookupFailureClassified ==
    [][\A t \in Tasks, force \in BOOLEAN, caller \in Callers,
         raised \in OwnerOutcomes \ {None} :
          CompileAnswer(t, force, TRUE, caller, raised) =>
              /\ response'.code
                     = IF raised \in {"forbidden", "unauthorized"}
                       THEN 403 ELSE 404
              /\ UNCHANGED <<backend, queue, StoreVars, enqueued>>]_vars

\* C34: from the moment start_compilation has returned for a task id, in
\* every state of its row (SENT, STARTED, RETRY, SUCCESS, FAILURE), get_task
\* reports the owner that was passed to start_compilation.
C34_OwnerReported ==
    \A t \in Tasks :
        backend[t].status \in {"SENT", "STARTED", "RETRY", "SUCCESS",
                              "FAILURE"} =>
            /\ Reported(t).kind = "Task"
            /\ Reported(t).owner = src_owner

\* C35: a compile request, with or without force, by a caller who is
\* neither the owner of a task nor scoped for it never goes on to
\* start_compilation for the task id of that task, so that no job is
\* enqueued for it.
C35_UnauthorizedNeverRecompiles ==
    [][\A r \in Reqs, t \in Tasks, force \in BOOLEAN, caller \in Callers :
          (/\ backend[t] # MetaPending
           /\ Truthy(src_owner)
           /\ ~caller.scoped /\ caller.user # src_owner) =>
              ~CompileLookup(r, t, force, caller)]_vars

\* C36: get_product answers 200 only for a task that get_task reports
\* completed, never for one it reports in_progress or failed.
C36_ProductOnlyWhenCompleted ==
    (response.kind = "get_product" /\ response.code = 200) =>
        response.found.status = COMPLETED

\* C37: an execution of do_compile invokes the converter only when the
\* source fetch succeeded, the checksum matched and the availability probe
\* returned true; when the probe returned false or raised, the converter is
\* not invoked.
C37_ConverterOnlyAfterProbe ==
    (response.kind = "do_compile_answer" /\ response.task.invoked) =>
        /\ response.call.fetch = "ok"
        /\ response.call.match
        /\ response.call.probe = "true"

\* C38: when the container has exited, with or without ContainerError, the
\* runner does not raise; the artifact it returns is a name of tex_cache that
\* ends with '.' and the format's extension, and it returns None exactly
\* when tex_cache is absent or holds no such name.
C38_ArtifactFound ==
    (response.kind = "runner_answer"
        /\ response.call.container \in {"returns", "container_error"}) =>
        LET cache == response.call.cache
            suffix == <<".">> \o response.call.ext
            Matches(n) ==
                /\ Len(n) >= Len(suffix)
                /\ \A i \in 1..Len(suffix) :
                      n[Len(n) - Len(suffix) + i] = suffix[i]
            held == IF cache.exists
                    THEN {cache.listing[i] : i \in DOMAIN cache.listing}
                    ELSE {}
            out == response.result.out
        IN  /\ response.result.raised = "None"
            /\ out.kind = "None" <=> \A n \in held : ~Matches(n)
            /\ out.kind = "path" =>
                  /\ Len(out.path) = 2 /\ out.path[1] = "tex_cache"
                  /\ out.path[2] \in held /\ Matches(out.path[2])

\* the container ended with ContainerError and tex_cache holds names, none
\* of them ending with '.pdf': the runner returned None without raising
C38_Witness ==
    /\ response.kind = "runner_answer"
    /\ response.call.container = "container_error"
    /\ response.call.ext = <<"p", "d", "f">>
    /\ response.call.cache.listing
           = <<<<"f", "p", "d", "f">>, <<"f", ".", "p", "s">>>>
    /\ response.result.raised = "None"
    /\ response.result.out.kind = "None"

\* C39: when the runner returns normally, the log path is
\* tex_logs/autotex.log and the file exists; it holds the container's
\* captured output if the converter left no log file or an empty one, and is
\* unchanged if the converter left a non-empty one.
C39_LogSettled ==
    (response.kind = "runner_answer" /\ response.result.raised = "None") =>
        LET before == response.call.logs
            after == response.result.logs
        IN  /\ response.result.log_path = <<"tex_logs", "autotex.log">>
            /\ after.dir /\ after.file
            /\ IF before.file /\ before.content # <<>>
               THEN after.content = before.content
               ELSE after.content = response.call.captured

\* the converter left an empty log file and the container printed output:
\* the runner returned and the file holds that output
C39_Witness ==
    /\ response.kind = "runner_answer"
    /\ response.result.raised = "None"
    /\ response.call.logs.file /\ response.call.logs.content = <<>>
    /\ response.call.captured = <<"o", "u", "t">>
    /\ response.result.logs.content = <<"o", "u", "t">>

\* C40: wait_for returns only after is_available has answered true and asks
\* again after every false; with WAIT_FOR_SERVICES create_app does not return
\* before the file manager and the task queue, its no-op result awaited,
\* have each reported available; and the waits end once the services stay
\* available.
C40_WaitForServices ==
    /\ [](response.kind = "startup" =>
            /\ response.pc \in {"wait_queue", "returned"} /\ response.wait
                  => response.fm_true
            /\ response.pc = "returned" /\ response.wait
                  => response.fm_true /\ response.queue_true
                        /\ response.awaited)
    /\ [][(response.pc = "wait_fm" /\ ~response.fm_up
              /\ response'.fm_polls # response.fm_polls)
             => response'.pc = "wait_fm"]_vars
    /\ (<>[](response.fm_up /\ response.broker_up /\ response.worker_up)
           => <>(response.pc = "returned"))

\* create_app returned after the file manager answered false at least once
\* and the queue at least twice before each reported available
C40_Witness ==
    /\ response.kind = "startup"
    /\ response.wait /\ response.pc = "returned"
    /\ response.fm_polls >= 2 /\ response.queue_polls = MaxPolls
    /\ response.fm_true /\ response.queue_true

====
